---- MODULE Spec2Model ----
(***************************************************************************)
(* Model of the LollMS proxy server (src/main.py): the admin JWT login and *)
(* verification, the sqlite-backed application registry and its admin      *)
(* routes, and the /api/chat dispatch with its model allow-list.           *)
(*                                                                         *)
(* Spec      : one request at a time, every route handler is one action.   *)
(* SpecConc  : two requests in flight; a handler is split at each await of *)
(*             a store helper (get_app / create_app / update_app /         *)
(*             delete_app), which is where asyncio can switch requests.    *)
(*                                                                         *)
(* Strings that the code takes apart (the comma separated "models" field,  *)
(* the model names) are sequences of one-character strings.  Time is in    *)
(* hours.                                                                  *)
(***************************************************************************)
EXTENDS Integers, Sequences, FiniteSets, TLC

VARIABLES store, now, session, generated, last, req

vars == <<store, now, session, generated, last, req>>

---------------------------------------------------------------------------
(* Bounds and input domains *)

MaxClock == 6

\* the clock is observed every TickHours hours
TickHours == 2

Procs == {1, 2}

Names == {"n1", "n2"}

ExplicitKeys == {"k1"}

Uuids == {"u1", "u2"}

AllKeys == ExplicitKeys \cup Uuids

None == "None"

\* payload.key: omitted, the empty string, or a key the caller knows
KeyInputs == {None, ""} \cup ExplicitKeys \cup generated

\* an optional value that is not a plain string: <<>> is None, <<v>> is v
Nothing == <<>>

Some(v) == <<v>>

\* payload.models: omitted, "", " a,B"
ModelStrings == {Nothing, Some(<<>>), Some(<<" ", "a", ",", "B">>)}

\* payload.name of an update: omitted or a name
NameInputs == {None} \cup Names

\* bodies of PUT /admin/apps/{app_key}: every mix of name and models, and
\* one body that carries only "active": false
UpdateBodies ==
  [name : NameInputs, models : ModelStrings, active : {None}]
  \cup {[name |-> None, models |-> Nothing, active |-> "false"]}

\* req.model: "a", "A", " a"
ModelNames == {<<"a">>, <<"A">>, <<" ", "a">>}

Usernames == {"admin", "root"}

Passwords == {"admin123", "guess"}

\* what lc.generate_from_messages does: returns a text or raises
BackendOutcomes == {[raised |-> FALSE, text |-> "hello"],
                    [raised |-> TRUE, text |-> "connection refused"]}

---------------------------------------------------------------------------
(* Configuration *)

ADMIN_PASSWORD == "admin123"

ADMIN_USERNAME == "admin"

JWT_SECRET == "supersecretjwtkey"

ExpiryHours == 4

---------------------------------------------------------------------------
(* str.split(",") and str.strip() *)

Whitespace == {" "}

RECURSIVE Split(_)
Split(s) ==
  IF \E i \in 1..Len(s) : s[i] = ","
  THEN LET i == CHOOSE j \in 1..Len(s) :
                  s[j] = "," /\ \A h \in 1..(j - 1) : s[h] # ","
       IN <<SubSeq(s, 1, i - 1)>> \o Split(SubSeq(s, i + 1, Len(s)))
  ELSE <<s>>

RECURSIVE Strip(_)
Strip(s) ==
  IF s = <<>> THEN s
  ELSE IF s[1] \in Whitespace THEN Strip(Tail(s))
  ELSE IF s[Len(s)] \in Whitespace THEN Strip(SubSeq(s, 1, Len(s) - 1))
  ELSE s

\* [m.strip() for m in models.split(",")] if models else []
ParseModels(models) ==
  IF models # Nothing /\ models[1] # <<>>
  THEN LET parts == Split(models[1]) IN [i \in 1..Len(parts) |-> Strip(parts[i])]
  ELSE <<>>

Range(s) == {s[i] : i \in 1..Len(s)}

\* json.dumps / json.loads of a list of strings
JsonDumps(list) == <<"[">> \o list \o <<"]">>

JsonLoads(text) == SubSeq(text, 2, Len(text) - 1)

---------------------------------------------------------------------------
(* JWT utilities *)

NoCred == [kind |-> "none"]

JwtEncode(payload, secret) ==
  [kind |-> "jwt", sub |-> payload.sub, exp |-> payload.exp,
   iat |-> payload.iat, sig |-> secret]

\* the expiry of another revision
create_jwt_token_8h(username, t) ==
  JwtEncode([sub |-> username, exp |-> t + 8, iat |-> t], JWT_SECRET)

create_jwt_token(username, t) ==
  JwtEncode([sub |-> username, exp |-> t + ExpiryHours, iat |-> t], JWT_SECRET)

\* a decode that does not verify the signature
JwtDecode_NoSignature(token, secret, t, atExp) ==
  IF token.kind # "jwt" THEN [error |-> "InvalidTokenError"]
  ELSE IF token.exp < t \/ (token.exp = t /\ atExp)
       THEN [error |-> "ExpiredSignatureError"]
  ELSE [error |-> None, sub |-> token.sub]

\* jwt.decode: signature first, then exp.  atExp says whether a token whose
\* exp equals the current time counts as expired (PyJWT 2) or not (PyJWT 1).
JwtDecode(token, secret, t, atExp) ==
  IF token.kind # "jwt" THEN [error |-> "InvalidTokenError"]
  ELSE IF token.sig # secret THEN [error |-> "InvalidTokenError"]
  ELSE IF token.exp < t \/ (token.exp = t /\ atExp)
       THEN [error |-> "ExpiredSignatureError"]
  ELSE [error |-> None, sub |-> token.sub]

\* HTTPBearer() rejects a request without credentials before the body runs
verify_jwt_token(cred, t, atExp) ==
  IF cred.kind = "none"
  THEN [ok |-> FALSE, status |-> 403, detail |-> "Not authenticated"]
  ELSE LET payload == JwtDecode(cred, JWT_SECRET, t, atExp) IN
       IF payload.error = "ExpiredSignatureError"
       THEN [ok |-> FALSE, status |-> 401, detail |-> "Token expired"]
       ELSE IF payload.error = "InvalidTokenError"
       THEN [ok |-> FALSE, status |-> 401, detail |-> "Invalid token"]
       ELSE [ok |-> TRUE, sub |-> payload.sub]

\* credentials a caller can present: nothing, the token the admin holds, or
\* a token with the same claims made without the secret
Forged(t) ==
  JwtEncode([sub |-> ADMIN_USERNAME, exp |-> t + ExpiryHours, iat |-> t],
            "othersecret")

Creds == {NoCred, session, Forged(now)}

\* the two readings of "exp has passed" when exp is the current time
AtExp(cred, t) ==
  IF cred.kind = "jwt" /\ cred.exp = t THEN BOOLEAN ELSE {TRUE}

---------------------------------------------------------------------------
(* DB helpers: the applications table is a function key -> row *)

get_app(db, key) ==
  IF key \notin DOMAIN db THEN Nothing
  ELSE LET row == db[key] IN
       Some([key |-> key, name |-> row.name,
             allowed_models |-> IF row.allowed_models # <<>>
                                THEN JsonLoads(row.allowed_models) ELSE <<>>])

Row(obj) ==
  [name |-> obj.name, allowed_models |-> JsonDumps(obj.allowed_models)]

\* an INSERT whose transaction is never committed
create_app_NoCommit(db, obj) == [error |-> None, db |-> db]

\* INSERT: a second row with the same primary key raises IntegrityError
create_app(db, obj) ==
  IF obj.key \in DOMAIN db
  THEN [error |-> "IntegrityError", db |-> db]
  ELSE [error |-> None,
        db |-> [k \in DOMAIN db \cup {obj.key} |->
                  IF k = obj.key THEN Row(obj) ELSE db[k]]]

\* UPDATE ... WHERE key = ?: no row matches, nothing happens
update_app(db, key, data) ==
  IF key \in DOMAIN db THEN [db EXCEPT ![key] = Row(data)] ELSE db

\* a DELETE without its WHERE clause
delete_app_All(db, key) == <<>>

delete_app(db, key) == [k \in DOMAIN db \ {key} |-> db[k]]

list_apps(db) == {get_app(db, k)[1] : k \in DOMAIN db}

---------------------------------------------------------------------------
(* Pieces of the route handlers shared by Spec and SpecConc *)

HttpError(status, detail) == [status |-> status, detail |-> detail]

\* app_key = payload.key or str(uuid.uuid4()): None and "" are both falsy
KeyGiven(key) == key # None /\ key # ""

\* uuid4 is modelled as a key that was never generated before
FreshUuids == Uuids \ generated

\* an update that replaces the allowed models whether supplied or not
Patch_ReplaceAll(app, payload) ==
  [key |-> app.key,
   name |-> IF payload.name # None THEN payload.name ELSE app.name,
   allowed_models |-> ParseModels(payload.models)]

\* lines 245-248: the fields of the body that are not None replace the
\* fields of the row that was read; an "active" field is not part of
\* UpdateAppPayload and is dropped
Patch(app, payload) ==
  [key |-> app.key,
   name |-> IF payload.name # None THEN payload.name ELSE app.name,
   allowed_models |-> IF payload.models # Nothing THEN ParseModels(payload.models)
                      ELSE app.allowed_models]

\* a whitelist check that takes an empty list as "nothing allowed"
ModelRefused_NoEmptyCheck(app, model) ==
  model \notin Range(app.allowed_models)

\* line 283: the whitelist check of chat_endpoint
ModelRefused(app, model) ==
  app.allowed_models # <<>> /\ model \notin Range(app.allowed_models)

\* a dispatch that calls the backend a second time when it raised
Dispatch_Retry(outcome) ==
  IF outcome.raised
  THEN [status |-> 502, detail |-> <<"Error contacting OpenWebUI: ", outcome.text>>,
        invoked |-> 2]
  ELSE [status |-> 200, detail |-> "", body |-> [response |-> outcome.text],
        invoked |-> 1]

\* lines 286-292: one call of client.chat, its exception turned into a 502
Dispatch(outcome) ==
  IF outcome.raised
  THEN [status |-> 502, detail |-> <<"Error contacting OpenWebUI: ", outcome.text>>,
        invoked |-> 1]
  ELSE [status |-> 200, detail |-> "", body |-> [response |-> outcome.text],
        invoked |-> 1]

---------------------------------------------------------------------------
(* Spec: the route handlers, one request at a time.  last is the request    *)
(* just served and its response.                                            *)

IdleReq == [p \in Procs |-> [pc |-> "idle"]]

Init ==
  /\ store = <<>>
  /\ now = 0
  /\ session = NoCred
  /\ generated = {}
  /\ last = [op |-> "start", status |-> 0, detail |-> ""]
  /\ req = IdleReq

\* time passes
Tick ==
  /\ now + TickHours <= MaxClock
  /\ now' = now + TickHours
  /\ last' = [op |-> "tick", status |-> 0, detail |-> ""]
  /\ UNCHANGED <<store, session, generated, req>>

\* POST /admin/login
admin_login ==
  \E username \in Usernames, password \in Passwords :
    /\ IF username # ADMIN_USERNAME \/ password # ADMIN_PASSWORD
       THEN /\ last' = [op |-> "login", status |-> 403,
                        detail |-> "Invalid credentials",
                        username |-> username, password |-> password]
            /\ UNCHANGED session
       ELSE LET token == create_jwt_token(username, now) IN
            /\ last' = [op |-> "login", status |-> 200, detail |-> "",
                        username |-> username, password |-> password,
                        access_token |-> token]
            /\ session' = token
    /\ UNCHANGED <<store, now, generated, req>>

\* a request that Depends(verify_jwt_token) turned away
Rejected(op, cred, auth) ==
  [op |-> op, cred |-> cred, status |-> auth.status, detail |-> auth.detail]

\* POST /admin/add_app
add_application ==
  \E cred \in Creds : \E atExp \in AtExp(cred, now) :
    LET auth == verify_jwt_token(cred, now, atExp) IN
    /\ IF ~auth.ok
       THEN /\ last' = Rejected("add", cred, auth)
            /\ UNCHANGED <<store, generated>>
       ELSE \E name \in Names, key \in KeyInputs, models \in ModelStrings :
            LET inp == [op |-> "add", cred |-> cred, sub |-> auth.sub,
                        name |-> name, key |-> key, models |-> models]
            IN
            /\ KeyGiven(key) \/ FreshUuids # {}
            /\ LET app_key == IF KeyGiven(key) THEN key
                              ELSE CHOOSE u \in FreshUuids : TRUE
               IN
               /\ generated' = IF KeyGiven(key) THEN generated
                               ELSE generated \cup {app_key}
               /\ IF get_app(store, app_key) # Nothing
                  THEN /\ last' = inp @@ HttpError(400, "Application key already exists")
                       /\ UNCHANGED store
                  ELSE LET app_obj == [name |-> name, key |-> app_key,
                                       allowed_models |-> ParseModels(models)]
                           res == create_app(store, app_obj)
                       IN /\ store' = res.db
                          /\ last' = inp @@
                               IF res.error # None
                               THEN HttpError(500, res.error)
                               ELSE [status |-> 200, detail |-> "created",
                                     application |-> app_obj]
    /\ UNCHANGED <<now, session, req>>

\* GET /admin/apps
admin_list_apps ==
  \E cred \in Creds : \E atExp \in AtExp(cred, now) :
    LET auth == verify_jwt_token(cred, now, atExp) IN
    /\ last' = IF ~auth.ok THEN Rejected("list", cred, auth)
               ELSE [op |-> "list", cred |-> cred, sub |-> auth.sub,
                     status |-> 200, detail |-> "", apps |-> list_apps(store)]
    /\ UNCHANGED <<store, now, session, generated, req>>

\* PUT /admin/apps/{app_key}
admin_update_app ==
  \E cred \in Creds : \E atExp \in AtExp(cred, now) :
    LET auth == verify_jwt_token(cred, now, atExp) IN
    /\ IF ~auth.ok
       THEN /\ last' = Rejected("update", cred, auth)
            /\ UNCHANGED store
       ELSE \E app_key \in AllKeys, payload \in UpdateBodies :
            LET inp == [op |-> "update", cred |-> cred, sub |-> auth.sub,
                        key |-> app_key, payload |-> payload]
                app == get_app(store, app_key)
            IN
            IF app = Nothing
            THEN /\ last' = inp @@ HttpError(404, "Application not found")
                 /\ UNCHANGED store
            ELSE LET new == Patch(app[1], payload) IN
                 /\ store' = update_app(store, app_key, new)
                 /\ last' = inp @@ [status |-> 200, detail |-> "updated",
                                    application |-> new]
    /\ UNCHANGED <<now, session, generated, req>>

\* DELETE /admin/apps/{app_key}
admin_delete_app ==
  \E cred \in Creds : \E atExp \in AtExp(cred, now) :
    LET auth == verify_jwt_token(cred, now, atExp) IN
    /\ IF ~auth.ok
       THEN /\ last' = Rejected("delete", cred, auth)
            /\ UNCHANGED store
       ELSE \E app_key \in AllKeys :
            LET inp == [op |-> "delete", cred |-> cred, sub |-> auth.sub,
                        key |-> app_key]
            IN
            IF get_app(store, app_key) = Nothing
            THEN /\ last' = inp @@ HttpError(404, "Application not found")
                 /\ UNCHANGED store
            ELSE /\ store' = delete_app(store, app_key)
                 /\ last' = inp @@ [status |-> 200, detail |-> "deleted"]
    /\ UNCHANGED <<now, session, generated, req>>

\* POST /api/chat
chat_endpoint ==
  \E app_key \in AllKeys, model \in ModelNames :
    LET inp     == [op |-> "chat", key |-> app_key, model |-> model]
        app_obj == get_app(store, app_key)
    IN
    /\ IF app_obj = Nothing
       THEN last' = inp @@ HttpError(404, "Application not found")
                        @@ [invoked |-> 0]
       ELSE IF ModelRefused(app_obj[1], model)
       THEN last' = inp @@ HttpError(403, "Model not allowed for this application")
                        @@ [invoked |-> 0]
       ELSE \E outcome \in BackendOutcomes :
              last' = inp @@ Dispatch(outcome) @@ [outcome |-> outcome]
    /\ UNCHANGED <<store, now, session, generated, req>>

Next ==
  \/ Tick
  \/ admin_login
  \/ add_application
  \/ admin_list_apps
  \/ admin_update_app
  \/ admin_delete_app
  \/ chat_endpoint

Spec == Init /\ [][Next]_vars

TypeOK == now \in 0..MaxClock

---------------------------------------------------------------------------
(* SpecConc: two admin requests in flight.  Each handler runs up to its    *)
(* next await of a store helper, then another request may run.  The other  *)
(* routes are as in Spec and are left out of NextConc.                     *)

SeedApp == [key |-> "k1", name |-> "n1", allowed_models |-> <<>>]

\* the admin has logged in at time 0; the registry is empty or holds k1
InitConc ==
  /\ store \in {<<>>, create_app(<<>>, SeedApp).db}
  /\ now = 0
  /\ session = create_jwt_token(ADMIN_USERNAME, 0)
  /\ generated = {}
  /\ last = [op |-> "login", status |-> 200, detail |-> "",
             username |-> ADMIN_USERNAME, password |-> ADMIN_PASSWORD,
             access_token |-> create_jwt_token(ADMIN_USERNAME, 0)]
  /\ req = IdleReq

Finish(p, resp) == req' = [req EXCEPT ![p] = [pc |-> "done"] @@ resp @@ req[p]]

\* a request arrives: Depends(verify_jwt_token), then the synchronous code
\* up to the first await
Receive(p) ==
  /\ req[p].pc = "idle"
  /\ \E cred \in Creds : \E atExp \in AtExp(cred, now) :
       LET auth == verify_jwt_token(cred, now, atExp) IN
       IF ~auth.ok
       THEN /\ \E op \in {"add", "update", "delete"} :
                 req' = [req EXCEPT ![p] = [pc |-> "done"] @@ Rejected(op, cred, auth)]
            /\ UNCHANGED generated
       ELSE \/ \E name \in Names, key \in {None} \cup ExplicitKeys,
                  models \in ModelStrings :
                 /\ KeyGiven(key) \/ FreshUuids # {}
                 /\ LET app_key == IF KeyGiven(key) THEN key
                                   ELSE CHOOSE u \in FreshUuids : TRUE
                    IN /\ generated' = IF KeyGiven(key) THEN generated
                                       ELSE generated \cup {app_key}
                       /\ req' = [req EXCEPT ![p] =
                                   [pc |-> "add_get_app", op |-> "add",
                                    name |-> name, key |-> key, models |-> models,
                                    app_key |-> app_key]]
            \/ /\ \E app_key \in ExplicitKeys, payload \in UpdateBodies :
                    req' = [req EXCEPT ![p] =
                              [pc |-> "update_get_app", op |-> "update",
                               key |-> app_key, payload |-> payload]]
               /\ UNCHANGED generated
            \/ /\ \E app_key \in ExplicitKeys :
                    req' = [req EXCEPT ![p] =
                              [pc |-> "delete_get_app", op |-> "delete",
                               key |-> app_key]]
               /\ UNCHANGED generated
  /\ UNCHANGED <<store, now, session, last>>

\* line 222: await get_app(app_key)
add_get_app(p) ==
  /\ req[p].pc = "add_get_app"
  /\ IF get_app(store, req[p].app_key) # Nothing
     THEN Finish(p, HttpError(400, "Application key already exists"))
     ELSE req' = [req EXCEPT ![p].pc = "add_create_app"]
  /\ UNCHANGED <<store, now, session, generated, last>>

\* lines 224-227: await create_app(app_obj); its exception is not caught
add_create_app(p) ==
  /\ req[p].pc = "add_create_app"
  /\ LET app_obj == [name |-> req[p].name, key |-> req[p].app_key,
                     allowed_models |-> ParseModels(req[p].models)]
         res == create_app(store, app_obj)
     IN /\ store' = res.db
        /\ Finish(p, IF res.error # None THEN HttpError(500, res.error)
                     ELSE [status |-> 200, detail |-> "created",
                           application |-> app_obj])
  /\ UNCHANGED <<now, session, generated, last>>

\* lines 242-248: await get_app(app_key), then the patch of the row read
update_get_app(p) ==
  /\ req[p].pc = "update_get_app"
  /\ LET app == get_app(store, req[p].key) IN
     IF app = Nothing
     THEN Finish(p, HttpError(404, "Application not found"))
     ELSE req' = [req EXCEPT ![p] =
                    [pc |-> "update_update_app",
                     app |-> Patch(app[1], req[p].payload)] @@ req[p]]
  /\ UNCHANGED <<store, now, session, generated, last>>

\* lines 249-250: await update_app(app_key, app)
update_update_app(p) ==
  /\ req[p].pc = "update_update_app"
  /\ store' = update_app(store, req[p].key, req[p].app)
  /\ Finish(p, [status |-> 200, detail |-> "updated",
                application |-> req[p].app])
  /\ UNCHANGED <<now, session, generated, last>>

\* lines 258-260: await get_app(app_key)
delete_get_app(p) ==
  /\ req[p].pc = "delete_get_app"
  /\ IF get_app(store, req[p].key) = Nothing
     THEN Finish(p, HttpError(404, "Application not found"))
     ELSE req' = [req EXCEPT ![p].pc = "delete_delete_app"]
  /\ UNCHANGED <<store, now, session, generated, last>>

\* lines 261-262: await delete_app(app_key)
delete_delete_app(p) ==
  /\ req[p].pc = "delete_delete_app"
  /\ store' = delete_app(store, req[p].key)
  /\ Finish(p, [status |-> 200, detail |-> "deleted"])
  /\ UNCHANGED <<now, session, generated, last>>

NextConc ==
  \E p \in Procs :
    \/ Receive(p)
    \/ add_get_app(p)
    \/ add_create_app(p)
    \/ update_get_app(p)
    \/ update_update_app(p)
    \/ delete_get_app(p)
    \/ delete_delete_app(p)

SpecConc == InitConc /\ [][NextConc]_vars

---------------------------------------------------------------------------
(* Vocabulary of the properties *)

\* the error kind a response stands for
Kind(r) ==
  CASE r.status = 200 -> "ok"
    [] r.status = 400 -> "ConflictError"
    [] r.status = 401 -> "AuthError"
    [] r.status = 403 ->
         IF r.detail = "Model not allowed for this application"
         THEN "ForbiddenError" ELSE "AuthError"
    [] r.status = 404 -> "NotFoundError"
    [] r.status = 502 -> "BackendError"
    [] OTHER -> "InternalError"

AdminOps == {"add", "list", "update", "delete"}

\* the request got past Depends(verify_jwt_token)
Admitted(r) == r.op \in AdminOps /\ r.status \notin {401, 403}

\* the record stored under key k
Stored(db, k) ==
  [key |-> k, name |-> db[k].name,
   allowed_models |-> JsonLoads(db[k].allowed_models)]

\* the caller supplied a key
Supplied(key) == key \notin {None, ""}

Member(x, list) == \E i \in 1..Len(list) : list[i] = x

OthersUnchanged(k) ==
  \A j \in (DOMAIN store \cup DOMAIN store') \ {k} :
    j \in DOMAIN store /\ j \in DOMAIN store' /\ store'[j] = store[j]

---------------------------------------------------------------------------
(* C1 *)

\* C1: a chat dispatch for a stored record invokes the backend exactly when
\* the record's allowed-model list is empty or has the requested model as
\* an exact member; otherwise it fails with ForbiddenError and the backend
\* is not invoked.
C1_AllowListDecides ==
  (last.op = "chat" /\ last.key \in DOMAIN store) =>
    LET allowed == Stored(store, last.key).allowed_models
        permits == allowed = <<>> \/ Member(last.model, allowed)
    IN /\ (last.invoked >= 1) <=> permits
       /\ ~permits => (Kind(last) = "ForbiddenError" /\ last.invoked = 0)

\* a model that differs from a listed one only by case was refused
C1_Witness ==
  /\ last.op = "chat"
  /\ last.key \in DOMAIN store
  /\ last.model = <<"A">>
  /\ Member(<<"a">>, Stored(store, last.key).allowed_models)
  /\ last.status = 403
  /\ last.invoked = 0

---------------------------------------------------------------------------
(* C2 *)

\* C2: after an update that sets active=false was accepted for a key, a
\* chat dispatch for that key fails with ForbiddenError and the backend is
\* not invoked.
C2_DeactivatedRefused ==
  [][(/\ last.op = "update" /\ last.status = 200
      /\ last.payload.active = "false"
      /\ last'.op = "chat" /\ last'.key = last.key)
     => (Kind(last') = "ForbiddenError" /\ last'.invoked = 0)]_vars

---------------------------------------------------------------------------
(* C3 *)

\* C3: a create that supplies a key already in the registry fails with
\* ConflictError and leaves the registry as it was; a create that supplies
\* no key stores its record under a generated key that no earlier create
\* was given and that differs from every stored key.
C3_CreateKeys ==
  [][(last'.op = "add" /\ Admitted(last')) =>
       /\ (Supplied(last'.key) /\ last'.key \in DOMAIN store) =>
            (Kind(last') = "ConflictError" /\ store' = store)
       /\ (Supplied(last'.key) /\ last'.key \notin DOMAIN store) =>
            /\ last'.status = 200
            /\ last'.application.key = last'.key
       /\ ~Supplied(last'.key) =>
            /\ last'.status = 200
            /\ last'.application.key \notin generated \cup DOMAIN store
            /\ generated' = generated \cup {last'.application.key}
       /\ last'.status = 200 =>
            /\ DOMAIN store' = DOMAIN store \cup {last'.application.key}
            /\ Stored(store', last'.application.key) = last'.application
            /\ last'.application.name = last'.name
            /\ OthersUnchanged(last'.application.key)]_vars

\* two records stand under two generated keys, and a create that named one
\* of them was refused
C3_Witness ==
  /\ Cardinality(generated \cap DOMAIN store) = 2
  /\ last.op = "add"
  /\ last.status = 400
  /\ last.key \in generated

---------------------------------------------------------------------------
(* C4 *)

\* C4: a delete of a stored key removes that record and no other; a delete
\* of an absent key fails with NotFoundError and changes nothing; a key
\* that is absent stays absent until a create stores it; and while it is
\* absent a lookup (update, delete, list) and a chat dispatch for it fail
\* with NotFoundError without invoking the backend.
C4_DeleteRemoves ==
  [][/\ (last'.op = "delete" /\ Admitted(last')) =>
          IF last'.key \in DOMAIN store
          THEN /\ last'.status = 200
               /\ DOMAIN store' = DOMAIN store \ {last'.key}
               /\ OthersUnchanged(last'.key)
          ELSE Kind(last') = "NotFoundError" /\ store' = store
     /\ \A k \in AllKeys :
          (k \notin DOMAIN store /\ k \in DOMAIN store') =>
            /\ last'.op = "add" /\ last'.status = 200
            /\ last'.application.key = k
     /\ (last'.op = "chat" /\ last'.key \notin DOMAIN store) =>
          (Kind(last') = "NotFoundError" /\ last'.invoked = 0)
     /\ (last'.op \in {"update", "delete"} /\ Admitted(last')
           /\ last'.key \notin DOMAIN store) =>
          Kind(last') = "NotFoundError"
     /\ (last'.op = "list" /\ Admitted(last')) =>
          {a.key : a \in last'.apps} = DOMAIN store]_vars

\* a chat dispatch for a key that was generated, stored and then deleted
C4_Witness ==
  /\ last.op = "chat"
  /\ last.key \in generated \ DOMAIN store
  /\ last.status = 404
  /\ DOMAIN store # {}

---------------------------------------------------------------------------
(* C5 *)

\* C5: an update of a stored key sets the name and the allowed models the
\* caller supplied, keeps the stored value of a field not supplied, keeps
\* the key and leaves every other record alone; an update of an absent key
\* fails with NotFoundError and changes nothing.
C5_PartialUpdate ==
  [][(last'.op = "update" /\ Admitted(last')) =>
       IF last'.key \in DOMAIN store
       THEN LET old == Stored(store, last'.key)
                new == Stored(store', last'.key)
                body == last'.payload
            IN /\ last'.status = 200
               /\ DOMAIN store' = DOMAIN store
               /\ OthersUnchanged(last'.key)
               /\ new.key = old.key
               /\ new.name = IF body.name = None THEN old.name ELSE body.name
               /\ new.allowed_models =
                    IF body.models = Nothing THEN old.allowed_models
                    ELSE ParseModels(body.models)
               /\ last'.application = new
       ELSE Kind(last') = "NotFoundError" /\ store' = store]_vars

\* an update that supplied only a name was applied to a record whose
\* allowed-model list is not empty
C5_Witness ==
  /\ last.op = "update"
  /\ last.status = 200
  /\ last.payload.name # None
  /\ last.payload.models = Nothing
  /\ Stored(store, last.key).allowed_models = << <<"a">>, <<"B">> >>
  /\ Stored(store, last.key).name = last.payload.name

---------------------------------------------------------------------------
(* C6 *)

\* a token the server signed and that has not expired
Genuine(cred, t) ==
  cred.kind = "jwt" /\ cred.sig = JWT_SECRET /\ cred.exp >= t

\* C6: the registry changes only in an admin create, update or delete that
\* presented a genuine unexpired token; an admin call (list included) is
\* served only with such a token, and one that presents no token, a token
\* with a bad signature or an expired token fails with AuthError; a chat
\* dispatch never changes the registry.
C6_AdminBehindToken ==
  [][/\ store' # store =>
          /\ last'.op \in {"add", "update", "delete"}
          /\ last'.status = 200
     /\ (last'.op \in AdminOps /\ Kind(last') # "AuthError") =>
          Genuine(last'.cred, now)
     /\ (last'.op \in AdminOps /\
           (last'.cred.kind = "none" \/ last'.cred.sig # JWT_SECRET
              \/ last'.cred.exp < now)) =>
          (Kind(last') = "AuthError" /\ store' = store)
     /\ last'.op = "chat" => store' = store]_vars

\* a create that presented an expired token was turned away while the
\* registry holds a record
C6_Witness ==
  /\ last.op = "add"
  /\ last.status = 401
  /\ last.detail = "Token expired"
  /\ last.cred = session
  /\ DOMAIN store # {}

---------------------------------------------------------------------------
(* C7 *)

\* C7: a login with the configured username and password issues a token
\* for that username expiring ExpiryHours later, any other login fails and
\* issues none; an admin call that presents an issued token before its
\* expiry is verified as the login's username; one that presents it more
\* than ExpiryHours after issuance fails with "Token expired", and a token
\* with a bad signature fails with "Invalid token".
C7_LoginVerify ==
  [][/\ last'.op = "login" =>
          IF last'.username = ADMIN_USERNAME /\ last'.password = ADMIN_PASSWORD
          THEN /\ last'.status = 200
               /\ session' = last'.access_token
               /\ session'.sub = last'.username
               /\ session'.iat = now
               /\ session'.exp = now + ExpiryHours
               /\ session'.sig = JWT_SECRET
          ELSE /\ Kind(last') = "AuthError"
               /\ session' = session
     /\ (last'.op \in AdminOps /\ last'.cred.kind = "jwt") =>
          LET cred == last'.cred IN
          /\ (cred.sig = JWT_SECRET /\ now < cred.exp) =>
               (Admitted(last') /\ last'.sub = cred.sub
                  /\ last'.sub = ADMIN_USERNAME)
          /\ (cred.sig = JWT_SECRET /\ now > cred.iat + ExpiryHours) =>
               (last'.status = 401 /\ last'.detail = "Token expired")
          /\ cred.sig # JWT_SECRET =>
               (last'.status = 401 /\ last'.detail = "Invalid token")]_vars

\* a list call that presented the issued token after its expiry
C7_Witness ==
  /\ last.op = "list"
  /\ last.cred = session
  /\ session.kind = "jwt"
  /\ now > session.iat + ExpiryHours
  /\ last.status = 401
  /\ last.detail = "Token expired"

---------------------------------------------------------------------------
(* C8 *)

\* C8: a chat dispatch that passes the access guard invokes the backend
\* once; the text it returns is the response, and an exception it raises
\* ends the request with BackendError carrying the exception's message;
\* the registry is unchanged.
C8_BackendOnce ==
  [][(/\ last'.op = "chat"
      /\ last'.key \in DOMAIN store
      /\ LET allowed == Stored(store, last'.key).allowed_models
         IN allowed = <<>> \/ Member(last'.model, allowed))
     => /\ last'.invoked = 1
        /\ store' = store
        /\ IF last'.outcome.raised
           THEN /\ Kind(last') = "BackendError"
                /\ Member(last'.outcome.text, last'.detail)
           ELSE /\ last'.status = 200
                /\ last'.body.response = last'.outcome.text]_vars

\* the backend raised and the request ended with its message
C8_Witness ==
  /\ last.op = "chat"
  /\ last.status = 502
  /\ last.invoked = 1
  /\ last.detail[2] = "connection refused"

---------------------------------------------------------------------------
(* C9 *)

AddDone(p) ==
  /\ req[p].pc = "done"
  /\ req[p].op = "add"
  /\ req[p].status \notin {401, 403}

\* C9: when two creates that supplied the same key have both ended, and
\* the key was not stored before them, the registry holds the key, one of
\* them succeeded and the other failed with ConflictError.
C9_OneCreateWins ==
  \A p \in Procs : \A q \in Procs \ {p} :
    (/\ AddDone(p) /\ AddDone(q)
     /\ Supplied(req[p].key) /\ req[q].key = req[p].key
     /\ req[p].status # 400 \/ req[q].status # 400)
    => /\ req[p].key \in DOMAIN store
       /\ req[p].status = 200 \/ req[q].status = 200
       /\ req[p].status = 200 => Kind(req[q]) = "ConflictError"

---------------------------------------------------------------------------
(* C10 *)

UpdateDone(p) ==
  /\ req[p].pc = "done"
  /\ req[p].op = "update"
  /\ req[p].status = 200

\* C10: when an update that supplied only a name and an update of the
\* same key that supplied only allowed models have both succeeded, the
\* record has the new name and the new allowed models.
C10_NoLostUpdate ==
  \A p \in Procs : \A q \in Procs \ {p} :
    (/\ UpdateDone(p) /\ UpdateDone(q)
     /\ req[q].key = req[p].key
     /\ req[p].payload.name # None /\ req[p].payload.models = Nothing
     /\ req[q].payload.name = None /\ req[q].payload.models # Nothing)
    => /\ req[p].key \in DOMAIN store
       /\ Stored(store, req[p].key).name = req[p].payload.name
       /\ Stored(store, req[p].key).allowed_models =
            ParseModels(req[q].payload.models)

====
